---- MODULE Spec2Model ----
(***************************************************************************)
(* Model of the Evoki rule-set reconstructor (src/index.tsx): the          *)
(* accepted-only pre-filter, the retrying remote call, the response        *)
(* validation and the statistics aggregator, together with the UI state    *)
(* they write.                                                             *)
(***************************************************************************)
EXTENDS Integers, Sequences, FiniteSets, TLC

(***************************************************************************)
(* JavaScript values.  Every value is a record tagged with its type, so    *)
(* that property access, truthiness, typeof and Array.isArray can be       *)
(* computed as the engine computes them.  An object keeps its properties   *)
(* in property order (a sequence of key/value pairs, no key twice).        *)
(***************************************************************************)
Undef == [t |-> "undefined"]
Null == [t |-> "null"]
Bool(b) == [t |-> "boolean", v |-> b]
Num(n) == [t |-> "number", v |-> n]
Str(s) == [t |-> "string", v |-> s]
Arr(items) == [t |-> "array", items |-> items]
Obj(props) == [t |-> "object", props |-> props]
P(k, v) == [k |-> k, v |-> v]

\* The key of array index i (0-based), as for-in and Object.keys give it.
IndexKey(i) == ToString(i)

\* !v
Truthy(v) ==
    CASE v.t = "undefined" -> FALSE
      [] v.t = "null" -> FALSE
      [] v.t = "boolean" -> v.v
      [] v.t = "number" -> v.v # 0
      [] v.t = "string" -> v.v # ""
      [] OTHER -> TRUE

\* typeof v === 'object'
TypeofObject(v) == v.t \in {"object", "array", "null"}

\* Array.isArray(v)
IsArray(v) == v.t = "array"

\* Object.keys(v), which is also the order of for (k in v).  A primitive
\* has no enumerable keys (strings, whose indices are keys, are not among
\* the values the model draws for a keyed position).
Keys(v) ==
    CASE v.t = "object" -> [i \in 1..Len(v.props) |-> v.props[i].k]
      [] v.t = "array" -> [i \in 1..Len(v.items) |-> IndexKey(i - 1)]
      [] OTHER -> <<>>

\* Object.values(v)
Values(v) ==
    CASE v.t = "object" -> [i \in 1..Len(v.props) |-> v.props[i].v]
      [] v.t = "array" -> v.items
      [] OTHER -> <<>>

\* for (const k in v) over undefined or null runs no iteration.
ForInKeys(v) == Keys(v)

\* v[k] for a key k that for-in or a literal names; a missing property, and
\* any property of a primitive, is undefined.  (Reading a property of
\* undefined or null throws: the callers test Throws first.)
Get(v, k) ==
    CASE v.t = "object" ->
           IF \E i \in 1..Len(v.props) : v.props[i].k = k
           THEN v.props[CHOOSE i \in 1..Len(v.props) : v.props[i].k = k].v
           ELSE Undef
      [] v.t = "array" ->
           IF \E i \in 1..Len(v.items) : IndexKey(i - 1) = k
           THEN v.items[CHOOSE i \in 1..Len(v.items) : IndexKey(i - 1) = k]
           ELSE Undef
      [] OTHER -> Undef

\* Reading any property of v throws a TypeError.
Throws(v) == v.t \in {"undefined", "null"}

\* o[k] = x on a plain object: replaces the value in place, or appends the
\* property (the callers add keys in for-in order, which is property order).
ObjSet(o, k, x) ==
    IF \E i \in 1..Len(o.props) : o.props[i].k = k
    THEN Obj([i \in 1..Len(o.props) |->
                 IF o.props[i].k = k THEN P(k, x) ELSE o.props[i]])
    ELSE Obj(Append(o.props, P(k, x)))

(***************************************************************************)
(* filterAcceptedRules (src/index.tsx 113-138)                             *)
(***************************************************************************)
\* rule.accepted === true
IsAccepted(rule) == Get(rule, "accepted") = Bool(TRUE)

\* The version is emitted when the inner loop found an accepted rule.
EmitEveryVersion(hasAcceptedRules) == TRUE
EmitVersion(hasAcceptedRules) == hasAcceptedRules

\* What the filtered version holds for a retained rule: the rule itself
\* (filteredRules[ruleKey] = rule).
RetainedStripped(rule) ==
    Obj(SelectSeq(rule.props, LAMBDA p : p.k # "accepted"))
Retained(rule) == rule

\* The inner loop over version.rules, from key number n on.  st holds the
\* loop's variables: filteredRules, hasAcceptedRules and the two counters;
\* threw is set when rule.accepted is read on a rule that is null or
\* undefined.
RECURSIVE FilterRulesFrom(_, _, _)
FilterRulesFrom(rules, n, st) ==
    IF st.threw \/ n > Len(ForInKeys(rules)) THEN st
    ELSE LET ruleKey == ForInKeys(rules)[n]
             rule == Get(rules, ruleKey)
             counted == [st EXCEPT !.originalCount = @ + 1]
         IN  IF Throws(rule) THEN [counted EXCEPT !.threw = TRUE]
             ELSE IF IsAccepted(rule)
             THEN FilterRulesFrom(rules, n + 1,
                    [counted EXCEPT
                       !.filteredRules = ObjSet(@, ruleKey, Retained(rule)),
                       !.hasAcceptedRules = TRUE,
                       !.filteredCount = @ + 1])
             ELSE FilterRulesFrom(rules, n + 1, counted)

\* The outer loop over data.versions, from key number n on.
RECURSIVE FilterVersionsFrom(_, _, _)
FilterVersionsFrom(versions, n, st) ==
    IF st.threw \/ n > Len(ForInKeys(versions)) THEN st
    ELSE LET versionKey == ForInKeys(versions)[n]
             version == Get(versions, versionKey)
         IN  IF Throws(version) THEN [st EXCEPT !.threw = TRUE]
             ELSE LET inner == FilterRulesFrom(Get(version, "rules"), 1,
                                 [st EXCEPT !.filteredRules = Obj(<<>>),
                                            !.hasAcceptedRules = FALSE])
                  IN  IF inner.threw THEN inner
                      ELSE FilterVersionsFrom(versions, n + 1,
                             IF EmitVersion(inner.hasAcceptedRules)
                             THEN [inner EXCEPT !.versions =
                                     ObjSet(@, versionKey,
                                            Obj(<<P("rules", inner.filteredRules)>>))]
                             ELSE inner)

\* filterAcceptedRules(data): threw, or { filteredData, originalCount,
\* filteredCount }.
filterAcceptedRules(data) ==
    IF Throws(data) THEN [threw |-> TRUE]
    ELSE LET st == FilterVersionsFrom(Get(data, "versions"), 1,
                     [threw |-> FALSE, versions |-> Obj(<<>>),
                      filteredRules |-> Obj(<<>>), hasAcceptedRules |-> FALSE,
                      originalCount |-> 0, filteredCount |-> 0])
         IN  IF st.threw THEN [threw |-> TRUE]
             ELSE [threw |-> FALSE,
                   filteredData |-> Obj(<<P("meta", Get(data, "meta")),
                                          P("versions", st.versions)>>),
                   originalCount |-> st.originalCount,
                   filteredCount |-> st.filteredCount]

(***************************************************************************)
(* Statistics aggregator (src/index.tsx 336-392)                           *)
(***************************************************************************)
\* version.rules && Array.isArray(version.rules) ? version.rules.length : 0
countRulesFromLegacy(version) ==
    LET rules == Get(version, "rules")
    IN  IF Truthy(rules) /\ IsArray(rules) THEN Len(rules.items) ELSE 0

\* version.rules && typeof version.rules === 'object'
\*     ? Object.keys(version.rules).length : 0
\* An array is an object too: its keys are its indices.
countRulesFromNewIndex(version) ==
    LET rules == Get(version, "rules")
    IN  IF Truthy(rules) /\ TypeofObject(rules) THEN Len(Keys(rules)) ELSE 0

\* What one version adds to the total.
VersionRulesMapsOnly(version) ==
    LET rules == Get(version, "rules")
    IN  IF Truthy(rules) /\ TypeofObject(rules) /\ ~IsArray(rules)
        THEN Len(Keys(rules)) ELSE 0
VersionRules(version) ==
    countRulesFromLegacy(version) + countRulesFromNewIndex(version)

\* data.versions || data
dataToProcess(data) ==
    IF Truthy(Get(data, "versions")) THEN Get(data, "versions") ELSE data

\* Object.values(dataToProcess).forEach(version => { if (version) count += ... })
RECURSIVE TotalFrom(_, _)
TotalFrom(versions, n) ==
    IF n > Len(versions) THEN 0
    ELSE (IF Truthy(versions[n]) THEN VersionRules(versions[n]) ELSE 0)
         + TotalFrom(versions, n + 1)

countTotalRules(data) ==
    IF ~Truthy(data) \/ ~TypeofObject(data) THEN 0
    ELSE TotalFrom(Values(dataToProcess(data)), 1)

\* rule.was && rule.warum && rule.wie, and the same of the alternate
\* triplet; the rule is complete when either chain is truthy.
isRuleCompleteAcrossTriplets(rule) ==
    /\ Truthy(Get(rule, "was")) \/ Truthy(Get(rule, "wortlaut"))
    /\ Truthy(Get(rule, "warum")) \/ Truthy(Get(rule, "seele"))
    /\ Truthy(Get(rule, "wie")) \/ Truthy(Get(rule, "funktion"))
isRuleComplete(rule) ==
    LET legacy == Truthy(Get(rule, "was")) /\ Truthy(Get(rule, "warum"))
                  /\ Truthy(Get(rule, "wie"))
        newFormat == Truthy(Get(rule, "wortlaut")) /\ Truthy(Get(rule, "seele"))
                     /\ Truthy(Get(rule, "funktion"))
    IN  legacy \/ newFormat

\* rules.forEach(rule => { if (rule && isRuleComplete(rule)) count++ })
RECURSIVE CompleteFrom(_, _)
CompleteFrom(rules, n) ==
    IF n > Len(rules) THEN 0
    ELSE (IF Truthy(rules[n]) /\ isRuleComplete(rules[n]) THEN 1 ELSE 0)
         + CompleteFrom(rules, n + 1)

\* The complete rules of one version: its rules are walked once, as an
\* array or else as a map.
VersionComplete(version) ==
    LET rules == Get(version, "rules")
    IN  IF Truthy(rules) /\ IsArray(rules)
        THEN CompleteFrom(rules.items, 1)
        ELSE IF Truthy(rules) /\ TypeofObject(rules)
        THEN CompleteFrom(Values(rules), 1)
        ELSE 0

RECURSIVE ReconstructedFrom(_, _)
ReconstructedFrom(versions, n) ==
    IF n > Len(versions) THEN 0
    ELSE (IF Truthy(versions[n]) THEN VersionComplete(versions[n]) ELSE 0)
         + ReconstructedFrom(versions, n + 1)

countReconstructedRules(data) ==
    IF ~Truthy(data) \/ ~TypeofObject(data) THEN 0
    ELSE ReconstructedFrom(Values(dataToProcess(data)), 1)

countVersions(data) ==
    IF ~Truthy(data) \/ ~TypeofObject(data) THEN 0
    ELSE Len(Keys(dataToProcess(data)))

(***************************************************************************)
(* Number arithmetic.  (reconstructed / total) * 100 is computed in        *)
(* IEEE-754 binary64: each operation rounds its exact result to 53         *)
(* significant bits, ties to even.  A positive double is its 53-bit        *)
(* mantissa, held as three limbs h (17 bits), m and l (18 bits each), with *)
(* the exponent e of its first bit: the value is                           *)
(* (h * 2^36 + m * 2^18 + l) * 2^(e - 52), in [2^e, 2^(e+1)).              *)
(***************************************************************************)
LimbBits == 18
Limb == 262144          \* 2^LimbBits
HighLimb == 65536       \* 2^16: the first mantissa bit, as the high limb

RECURSIVE Pow2(_)
Pow2(n) == IF n = 0 THEN 1 ELSE 2 * Pow2(n - 1)

Dbl(h, m, l, e) == [zero |-> FALSE, h |-> h, m |-> m, l |-> l, e |-> e]
DblZero == [zero |-> TRUE, h |-> 0, m |-> 0, l |-> 0, e |-> 0]

\* Round-to-nearest, ties-to-even: the mantissa h, m, l (first bit exponent
\* e) given how the dropped part compares with half a unit in the last place
\* (cmp: -1 below, 0 exactly half, 1 above).  Rounding up carries through
\* the limbs; a carry out of the mantissa gives 2^(e+1).
RoundNearestEven(h, m, l, e, cmp) ==
    LET up == cmp > 0 \/ (cmp = 0 /\ l % 2 = 1)
        l1 == (l + 1) % Limb
        m1 == IF l + 1 = Limb THEN (m + 1) % Limb ELSE m
        h1 == IF l + 1 = Limb /\ m + 1 = Limb THEN h + 1 ELSE h
    IN  IF ~up THEN Dbl(h, m, l, e)
        ELSE IF h1 = 2 * HighLimb THEN Dbl(HighLimb, 0, 0, e + 1)
        ELSE Dbl(h1, m1, l1, e)

\* The least s >= 0 with a * 2^s >= b.
RECURSIVE ShiftUp(_, _)
ShiftUp(a, b) == IF a >= b THEN 0 ELSE 1 + ShiftUp(2 * a, b)

\* The greatest u >= 0 with b * 2^u <= a, for a >= b.
RECURSIVE ShiftDown(_, _)
ShiftDown(a, b) == IF 2 * b > a THEN 0 ELSE 1 + ShiftDown(a, 2 * b)

\* r / t for integers r >= 0 and 1 <= t, both below 2^13: num / den is the
\* quotient scaled into [1, 2), divided out limb by limb.
FDiv(r, t) ==
    IF r = 0 THEN DblZero
    ELSE LET s == IF r >= t THEN 0 ELSE ShiftUp(r, t)
             u == IF r >= t THEN ShiftDown(r, t) ELSE 0
             num == r * Pow2(s)
             den == t * Pow2(u)
             h == (num * HighLimb) \div den
             r1 == (num * HighLimb) % den
             m == (r1 * Limb) \div den
             r2 == (r1 * Limb) % den
             l == (r2 * Limb) \div den
             r3 == (r2 * Limb) % den
             cmp == IF 2 * r3 > den THEN 1 ELSE IF 2 * r3 = den THEN 0 ELSE -1
         IN  RoundNearestEven(h, m, l, u - s, cmp)

\* x * c for a double x and an integer 64 <= c < 128 (exact as a double):
\* the limbs are multiplied with carry, and the 6 or 7 bits the product has
\* beyond 53 are rounded away.
FMul(x, c) ==
    IF x.zero THEN DblZero
    ELSE LET p0 == x.l * c
             p1 == (x.m * c) + (p0 \div Limb)
             p2 == (x.h * c) + (p1 \div Limb)
             l0 == p0 % Limb
             l1 == p1 % Limb
             extra == IF p2 >= 128 * HighLimb THEN 7 ELSE 6
             d == Pow2(extra)
             up == Pow2(LimbBits - extra)
             tail == l0 % d
             cmp == IF 2 * tail > d THEN 1 ELSE IF 2 * tail = d THEN 0 ELSE -1
         IN  RoundNearestEven(p2 \div d,
                              (l1 \div d) + ((p2 % d) * up),
                              (l0 \div d) + ((l1 % d) * up),
                              x.e + extra, cmp)

\* Math.round(x) for 0 <= x < 2^16: the nearest integer, a half going up,
\* that is the integer part plus the first fraction bit.
MathRound(x) ==
    IF x.zero \/ x.e < -1 THEN 0
    ELSE IF x.e = -1 THEN 1
    ELSE (x.h \div Pow2(16 - x.e)) + ((x.h \div Pow2(15 - x.e)) % 2)

\* Math.round((reconstructed / total) * 100), guarded by total > 0
SemanticDepthOf(reconstructed, total) ==
    IF total > 0 THEN MathRound(FMul(FDiv(reconstructed, total), 100)) ELSE 0

calculateSemanticDepth(data) ==
    SemanticDepthOf(countReconstructedRules(data), countTotalRules(data))

(***************************************************************************)
(* Texts.  A text (a file's content, the remote response, the displayed    *)
(* result) either is well-formed JSON, and then it is held as the value it *)
(* denotes with its layout (compact as received, or pretty as              *)
(* JSON.stringify(v, null, 2) lays it out), or it is not, and is held by   *)
(* its characters.                                                         *)
(***************************************************************************)
JsonText(val, layout) == [json |-> TRUE, layout |-> layout, val |-> val]
RawText(chars) == [json |-> FALSE, chars |-> chars]
EmptyText == RawText("")

\* A text is truthy unless it is the empty string.
TextTruthy(text) == text # EmptyText

\* JSON.parse(text): the value, or a SyntaxError.
JSONparse(text) ==
    IF text.json THEN [ok |-> TRUE, val |-> text.val] ELSE [ok |-> FALSE]

\* What JSON.stringify writes of a value: a property whose value is
\* undefined is left out, an undefined array item is written null.
RECURSIVE Serialized(_)
Serialized(v) ==
    CASE v.t = "object" ->
           LET kept == SelectSeq(v.props, LAMBDA p : p.v # Undef)
           IN  Obj([n \in 1..Len(kept) |-> P(kept[n].k, Serialized(kept[n].v))])
      [] v.t = "array" ->
           Arr([n \in 1..Len(v.items) |->
                  IF v.items[n] = Undef THEN Null ELSE Serialized(v.items[n])])
      [] OTHER -> v

\* JSON.stringify(v, null, 2)
JSONstringify(v) == JsonText(Serialized(v), "pretty")

(***************************************************************************)
(* Errors and the retryable classifier (src/index.tsx 163-164).  A message *)
(* is the sequence of its characters.                                      *)
(***************************************************************************)
LowerCase == <<"a", "b", "c", "d", "e", "f", "g", "h", "i", "j", "k", "l", "m",
               "n", "o", "p", "q", "r", "s", "t", "u", "v", "w", "x", "y", "z">>
UpperCase == <<"A", "B", "C", "D", "E", "F", "G", "H", "I", "J", "K", "L", "M",
               "N", "O", "P", "Q", "R", "S", "T", "U", "V", "W", "X", "Y", "Z">>

\* Case folding of one character, for the /i flag.
Fold(c) ==
    IF \E n \in 1..26 : LowerCase[n] = c
    THEN UpperCase[CHOOSE n \in 1..26 : LowerCase[n] = c]
    ELSE c

\* pat occurs in msg, letters compared without case.
Matches(pat, msg) ==
    \E start \in 1..(Len(msg) - Len(pat) + 1) :
        \A n \in 1..Len(pat) : Fold(msg[start + n - 1]) = Fold(pat[n])

Pat500 == <<"5", "0", "0">>
PatUnknown == <<"U", "N", "K", "N", "O", "W", "N">>
PatUnavailable == <<"U", "N", "A", "V", "A", "I", "L", "A", "B", "L", "E">>

\* /500|UNKNOWN|UNAVAILABLE/i.test(errorMessage)
isRetryable(errorMessage) ==
    \/ Matches(Pat500, errorMessage)
    \/ Matches(PatUnknown, errorMessage)
    \/ Matches(PatUnavailable, errorMessage)

\* The Error object the n-th invocation of the remote call rejects with (each
\* rejection is an object of its own), and the ProgressEvent a failed
\* FileReader rejects with.
Err(message, n) == [t |-> "Error", message |-> message, of |-> n]
ProgressEvent == [t |-> "ProgressEvent"]
ProgressEventString ==
    <<"[", "o", "b", "j", "e", "c", "t", " ", "P", "r", "o", "g", "r", "e",
      "s", "s", "E", "v", "e", "n", "t", "]">>

\* error instanceof Error ? error.message : String(error)
ErrorText(error) ==
    IF error.t = "Error" THEN error.message ELSE ProgressEventString

(***************************************************************************)
(* callWithRetry's constants and decisions (src/index.tsx 153-181)         *)
(***************************************************************************)
maxRetriesOffByOne == 3 + 1
maxRetries == 3
baseDelay == 1000
JitterSpan == 200

\* for (let i = 0; i < maxRetries; i++)
LoopContinues(n) == n < maxRetries

\* isRetryable && i < maxRetries - 1
ShouldRetryAnyError(retryable, n) == n < maxRetries - 1
ShouldRetry(retryable, n) == retryable /\ n < maxRetries - 1

\* baseDelay * Math.pow(2, i), the delay's fixed part after attempt i failed
BackoffBaseDoubled(n) == baseDelay * Pow2(n + 1)
BackoffBase(n) == baseDelay * Pow2(n)

\* (waitTime / 1000).toFixed(1), in tenths of a second
waitSeconds(waitTime) == (waitTime + 50) \div 100

\* The value the catch block throws when it does not retry: throw error.
ThrownStale(error, before) == IF before = Undef THEN error ELSE before
Thrown(error, before) == error

\* The entry addLogEntry(retryMessage, 'warning') appends.
RetryLogEntryAsError(n, waitTime) ==
    [type |-> "error", k |-> "retry", attempt |-> n + 1,
     seconds |-> waitSeconds(waitTime)]
RetryLogEntry(n, waitTime) ==
    [type |-> "warning", k |-> "retry", attempt |-> n + 1,
     seconds |-> waitSeconds(waitTime)]

\* The entries addLogEntry has appended when setTimeout is called: the
\* warning of 171 precedes the timer of 174.
LoggedAtTimerWarningPending(log, entry) == Len(log)
LoggedAtTimer(log, entry) == Len(Append(log, entry))

(***************************************************************************)
(* The inputs the model draws.                                             *)
(***************************************************************************)
Absent == [t |-> "absent"]

\* The properties that are present, in order.
Present(props) == SelectSeq(props, LAMBDA p : p.v # Absent)

VersionKeys == <<"1.0", "2.0">>
RuleKey(n) == "r" \o ToString(n)

\* Rule-index documents: up to MaxIndexRules rules in each version, the
\* accepted flag missing, true, false, or a truthy value that is not true.
MaxIndexRules == 2
AcceptedFlags == {Undef, Bool(TRUE), Bool(FALSE), Str("true")}
IndexRule(flag) ==
    Obj(Present(<<P("was", Str("x")),
                  P("accepted", IF flag = Undef THEN Absent ELSE flag)>>))
IndexRuleMaps ==
    {Obj(Present([n \in 1..MaxIndexRules |->
                    P(RuleKey(n), IF c[n] = Absent THEN Absent ELSE IndexRule(c[n]))]))
       : c \in [1..MaxIndexRules -> AcceptedFlags \cup {Absent}]}
IndexVersions == {Obj(<<P("rules", m)>>) : m \in IndexRuleMaps}
MetaObj == Obj(<<P("build", Str("offline"))>>)
IndexDocOf(meta, c) ==
    Obj(Present(<<P("meta", meta),
                  P("versions", Obj(Present([n \in 1..Len(VersionKeys) |->
                                               P(VersionKeys[n], c[n])])))>>))
WellFormedIndexDocs ==
    {IndexDocOf(meta, c) : meta \in {Absent, MetaObj},
                           c \in [1..Len(VersionKeys) -> IndexVersions \cup {Absent}]}
\* Documents off the documented shape: no versions, rules held as a list, a
\* version or a rule that is null, and JSON null itself.
OddIndexDocs ==
    {Null, Obj(<<>>),
     Obj(<<P("versions", Obj(<<P("1.0", Obj(<<P("rules",
            Arr(<<IndexRule(Bool(FALSE)), IndexRule(Bool(TRUE))>>))>>))>>))>>),
     Obj(<<P("versions", Obj(<<P("1.0", Null)>>))>>),
     Obj(<<P("versions", Obj(<<P("1.0", Obj(<<P("rules",
            Obj(<<P("r1", IndexRule(Bool(TRUE))), P("r2", Null)>>))>>))>>))>>)}
IndexDocs == WellFormedIndexDocs \cup OddIndexDocs

\* Parsed results: up to MaxStatRules rules in each version, held as a list
\* (legacy shape) or as an id-keyed map (indexed shape), the versions with
\* or without the 'versions' wrapper.
MaxStatRules == 2
CompleteLegacy ==
    Obj(<<P("id", Str("Regel-1")), P("was", Str("x")), P("warum", Str("y")),
          P("wie", Str("z"))>>)
CompleteAlternate ==
    Obj(<<P("wortlaut", Str("x")), P("seele", Str("y")), P("funktion", Str("z"))>>)
Incomplete == Obj(<<P("was", Str("x"))>>)
StatRules == {CompleteLegacy, CompleteAlternate, Incomplete}
StatRuleLists == UNION {[1..n -> StatRules] : n \in 0..MaxStatRules}
LegacyVersion(key, rules) == Obj(<<P("version", Str(key)), P("rules", Arr(rules))>>)
IndexedVersion(rules) ==
    Obj(<<P("rules", Obj([n \in 1..Len(rules) |-> P(RuleKey(n), rules[n])]))>>)
StatVersionChoices ==
    {Absent} \cup {[shape |-> sh, rules |-> rs] :
                     sh \in {"list", "map"}, rs \in StatRuleLists}
StatVersion(key, ch) ==
    IF ch = Absent THEN Absent
    ELSE IF ch.shape = "list" THEN LegacyVersion(key, ch.rules)
    ELSE IndexedVersion(ch.rules)
ResultOf(wrapped, c) ==
    LET versions == Obj(Present([n \in 1..Len(VersionKeys) |->
                                   P(VersionKeys[n], StatVersion(VersionKeys[n], c[n]))]))
    IN  IF wrapped THEN Obj(<<P("versions", versions)>>) ELSE versions
WellFormedResults ==
    {ResultOf(w, c) : w \in BOOLEAN,
                      c \in [1..Len(VersionKeys) -> StatVersionChoices]}
\* Results off both shapes: JSON null, a string, a version that is null, a
\* version whose rules are a string.
OddResults ==
    {Null, Str("x"), Obj(<<P("1.0", Null)>>),
     Obj(<<P("1.0", Obj(<<P("rules", Str("none"))>>))>>)}
ParsedResults == WellFormedResults \cup OddResults

\* Rules by their fields: each field of the two triplets missing, empty or
\* filled, and the results that hold one such rule in a list or in a map.
RuleFields == <<"was", "warum", "wie", "wortlaut", "seele", "funktion">>
FieldValues == {Absent, Str(""), Str("x")}
RuleShapes ==
    {Obj(Present([n \in 1..Len(RuleFields) |-> P(RuleFields[n], f[n])])) :
       f \in [1..Len(RuleFields) -> FieldValues]}
OneRuleResult(shape, rule) ==
    Obj(<<P("versions",
            Obj(<<P("1.0", IF shape = "list" THEN LegacyVersion("1.0", <<rule>>)
                           ELSE IndexedVersion(<<rule>>))>>))>>)
OneRuleResults ==
    {OneRuleResult(sh, rule) : sh \in {"list", "map"}, rule \in RuleShapes}

\* The results of the two end-to-end scenarios, an empty result, and an
\* indexed result of DepthTotal rules of which the first DepthComplete are
\* complete.
DepthTotal == 40
DepthComplete == 23
LegacyOneRule == Obj(<<P("1.0", LegacyVersion("1.0", <<CompleteLegacy>>))>>)
IndexedIncomplete ==
    Obj(<<P("versions", Obj(<<P("1.0", IndexedVersion(<<Incomplete>>))>>))>>)
NoVersions == Obj(<<P("versions", Obj(<<>>))>>)
DepthResult ==
    Obj(<<P("versions", Obj(<<P("1.0", IndexedVersion(
          [n \in 1..DepthTotal |->
             IF n <= DepthComplete THEN CompleteAlternate ELSE Incomplete]))>>))>>)
ResponseTexts ==
    {RawText("not json"), JsonText(LegacyOneRule, "compact"),
     JsonText(IndexedIncomplete, "compact"), JsonText(NoVersions, "compact"),
     JsonText(DepthResult, "compact")}

\* The files the user can select (a File is a handle: its content is read
\* when the run reads it), and the contents a read can deliver.
File(name) == [name |-> name]
MixedIndex ==
    IndexDocOf(MetaObj,
       <<Obj(<<P("rules", Obj(<<P("r1", IndexRule(Bool(TRUE))),
                                P("r2", IndexRule(Bool(FALSE)))>>))>>),
         Obj(<<P("rules", Obj(<<P("r1", IndexRule(Undef))>>))>>)>>)
MainFiles == {File("chat.txt")}
SkeletonFiles == {File("skeleton.txt")}
DenseFiles == {File("dense.txt")}
IndexFiles == {File("index.json")}
IndexTexts == {EmptyText, RawText("not json"), JsonText(MixedIndex, "compact")}
Contents(p) ==
    CASE p = "readMain" -> {RawText("chat")}
      [] p = "readSkeleton" -> {RawText("skeleton")}
      [] p = "readDense" -> {RawText("dense")}
      [] p = "readIndex" -> IndexTexts

\* The error messages of a failed remote call, and the jitter
\* Math.random() * 200 adds to a delay (in [0, 200), whole milliseconds).
ErrorMessages == {<<"5", "0", "0">>, <<"4", "2", "9">>}
Jitters == {0, JitterSpan - 1}

(***************************************************************************)
(* State.  The component's state (src/index.tsx 33-49), the position and   *)
(* locals of the run in flight, and what the remote call and the timers    *)
(* have seen of the current callWithRetry.                                 *)
(***************************************************************************)
VARIABLES
    mainFile, skeletonFile, denseFile, indexFile,   \* a file, or Null
    processOnlyAccepted,
    isLoading,
    activeTab,
    statusMessage,
    reconstructedData,      \* a text; EmptyText is ''
    progress,
    reconstructionLog,      \* sequence of entries
    stats,
    pc,         \* where the run is suspended: idle, readMain, readSkeleton,
                \* readDense, readIndex, call, backoff
    run,        \* the run's closure: the files and the toggle it started
                \* with, the contents read so far, the prompt
    i,          \* callWithRetry's loop variable
    lastError,
    apiCalls,   \* invocations of the wrapped call by this callWithRetry
    attempts,   \* their outcomes, in order
    delays,     \* the timers callWithRetry has set: [before, wait, logged]
    outcome,    \* of callWithRetry: none, pending, returned, raised
    clipboardWrites,    \* writeText promises not yet settled
    statusResets,       \* copyToClipboard's timers not yet fired
    filt,       \* filterAcceptedRules applied to a document, and again
    frag,       \* the prompt template applied to a fragment
    stat        \* the aggregators applied to a parsed result

uiVars == <<mainFile, skeletonFile, denseFile, indexFile, processOnlyAccepted,
            activeTab>>
outVars == <<isLoading, statusMessage, reconstructedData, progress,
             reconstructionLog, stats>>
runVars == <<pc, run, i, lastError, apiCalls, attempts, delays, outcome>>
clipVars == <<clipboardWrites, statusResets>>
pureVars == <<filt, stat, frag>>
vars == <<uiVars, outVars, runVars, clipVars, pureVars>>

ZeroStats ==
    [totalRules |-> 0, reconstructedRules |-> 0, versionsProcessed |-> 0,
     semanticDepth |-> 0]
NoRun ==
    [mainFile |-> Null, skeletonFile |-> Null, denseFile |-> Null,
     indexFile |-> Null, processOnlyAccepted |-> FALSE,
     mainContent |-> EmptyText, skeletonContent |-> EmptyText,
     denseContent |-> EmptyText, indexContent |-> EmptyText,
     indexRead |-> EmptyText, reads |-> <<>>, prompt |-> Absent]
FiltIdle == [phase |-> 0, data |-> Null, once |-> Absent, twice |-> Absent]
StatIdle == [phase |-> 0, data |-> Null, out |-> ZeroStats]
FragIdle ==
    [phase |-> 0, kind |-> "main", selected |-> TRUE, length |-> 0,
     out |-> Absent]

\* The state after the first render.
AppInit ==
    /\ mainFile = Null /\ skeletonFile = Null /\ denseFile = Null
    /\ indexFile = Null
    /\ processOnlyAccepted = FALSE
    /\ isLoading = FALSE
    /\ activeTab = "analysis"
    /\ statusMessage = [k |-> "empty"]
    /\ reconstructedData = EmptyText
    /\ progress = 0
    /\ reconstructionLog = <<>>
    /\ stats = ZeroStats
    /\ pc = "idle"
    /\ run = NoRun
    /\ i = 0
    /\ lastError = Undef
    /\ apiCalls = 0
    /\ attempts = <<>>
    /\ delays = <<>>
    /\ outcome = [state |-> "none"]
    /\ clipboardWrites = 0
    /\ statusResets = 0

Init == AppInit /\ filt = FiltIdle /\ stat = StatIdle /\ frag = FragIdle

(***************************************************************************)
(* File selection, removal and the toggle (src/index.tsx 58-91, 439-450)   *)
(***************************************************************************)
\* handleFileSelection / handleDrop with setMainFile
SelectMainFile ==
    /\ \E f \in MainFiles : mainFile' = f
    /\ UNCHANGED <<skeletonFile, denseFile, indexFile, processOnlyAccepted,
                   activeTab, outVars, runVars, clipVars, pureVars>>
SelectSkeletonFile ==
    /\ \E f \in SkeletonFiles : skeletonFile' = f
    /\ UNCHANGED <<mainFile, denseFile, indexFile, processOnlyAccepted,
                   activeTab, outVars, runVars, clipVars, pureVars>>
SelectDenseFile ==
    /\ \E f \in DenseFiles : denseFile' = f
    /\ UNCHANGED <<mainFile, skeletonFile, indexFile, processOnlyAccepted,
                   activeTab, outVars, runVars, clipVars, pureVars>>
SelectIndexFile ==
    /\ \E f \in IndexFiles : indexFile' = f
    /\ UNCHANGED <<mainFile, skeletonFile, denseFile, processOnlyAccepted,
                   activeTab, outVars, runVars, clipVars, pureVars>>

\* The remove button is rendered with the file item, when a file is held.
removeMainFile ==
    /\ mainFile # Null
    /\ mainFile' = Null
    /\ UNCHANGED <<skeletonFile, denseFile, indexFile, processOnlyAccepted,
                   activeTab, outVars, runVars, clipVars, pureVars>>
removeSkeletonFile ==
    /\ skeletonFile # Null
    /\ skeletonFile' = Null
    /\ UNCHANGED <<mainFile, denseFile, indexFile, processOnlyAccepted,
                   activeTab, outVars, runVars, clipVars, pureVars>>
removeDenseFile ==
    /\ denseFile # Null
    /\ denseFile' = Null
    /\ UNCHANGED <<mainFile, skeletonFile, indexFile, processOnlyAccepted,
                   activeTab, outVars, runVars, clipVars, pureVars>>
removeIndexFileKeepsToggle ==
    /\ indexFile # Null
    /\ indexFile' = Null
    /\ UNCHANGED <<mainFile, skeletonFile, denseFile, processOnlyAccepted,
                   activeTab, outVars, runVars, clipVars, pureVars>>
removeIndexFile ==
    /\ indexFile # Null
    /\ indexFile' = Null
    /\ processOnlyAccepted' = FALSE
    /\ UNCHANGED <<mainFile, skeletonFile, denseFile, activeTab, outVars,
                   runVars, clipVars, pureVars>>

\* The checkbox is rendered only while an index file is held; a change
\* stores the box's new state.
ToggleAccepted ==
    /\ indexFile # Null
    /\ processOnlyAccepted' = ~processOnlyAccepted
    /\ UNCHANGED <<mainFile, skeletonFile, denseFile, indexFile, activeTab,
                   outVars, runVars, clipVars, pureVars>>

(***************************************************************************)
(* startReconstruction (src/index.tsx 141-334), one action for each        *)
(* stretch of it that runs without suspending.                             *)
(***************************************************************************)
Entry(type, k) == [type |-> type, k |-> k]

\* The statistics setStats stores for a parsed response (299-309).
StatsOf(parsedData) ==
    [totalRules |-> countTotalRules(parsedData),
     reconstructedRules |-> countReconstructedRules(parsedData),
     versionsProcessed |-> countVersions(parsedData),
     semanticDepth |-> calculateSemanticDepth(parsedData)]

\* The outer catch and finally (326-333): the error is logged and shown,
\* the busy flag cleared.  log is the log as the run has written it so far;
\* the run's locals end with it.
\* The busy flag the finally block stores (332): setIsLoading(false).
BusyAfterRunStuck == TRUE
BusyAfterRun == FALSE

AbortSilently(error, log) ==
    /\ reconstructionLog' = log
    /\ statusMessage' = [k |-> "error", msg |-> ErrorText(error)]
    /\ isLoading' = BusyAfterRun
    /\ pc' = "idle"
    /\ run' = NoRun
Abort(error, log) ==
    /\ reconstructionLog' =
           Append(log, [type |-> "error", k |-> "run", msg |-> ErrorText(error)])
    /\ statusMessage' = [k |-> "error", msg |-> ErrorText(error)]
    /\ isLoading' = BusyAfterRun
    /\ pc' = "idle"
    /\ run' = NoRun

\* The generate button is disabled while isLoading || !mainFile (479).
ButtonEnabledWhileLoading == mainFile # Null
ButtonEnabled == ~(isLoading \/ mainFile = Null)

\* The log after setReconstructionLog([]) (149).
LogAtStartKept(log) == log
LogAtStart(log) == <<>>

\* The guard of 142: !mainFile.
MainFileNeverMissing(file) == FALSE
MainFileMissing(file) == file = Null

\* The handler: the guard of 142-145, else 147-151 and 184-187 up to the
\* first await.
startReconstruction ==
    /\ IF MainFileMissing(mainFile)
       THEN /\ statusMessage' = [k |-> "needMain"]
            /\ UNCHANGED <<isLoading, progress, reconstructionLog,
                           reconstructedData, runVars>>
       ELSE /\ isLoading' = TRUE
            /\ progress' = 10
            /\ reconstructionLog' =
                   Append(LogAtStart(reconstructionLog), Entry("info", "loading"))
            /\ reconstructedData' = EmptyText
            /\ statusMessage' = [k |-> "starting"]
            /\ run' = [NoRun EXCEPT !.mainFile = mainFile,
                                    !.skeletonFile = skeletonFile,
                                    !.denseFile = denseFile,
                                    !.indexFile = indexFile,
                                    !.processOnlyAccepted = processOnlyAccepted]
            /\ pc' = "readMain"
            /\ i' = 0
            /\ lastError' = Undef
            /\ apiCalls' = 0
            /\ attempts' = <<>>
            /\ delays' = <<>>
            /\ outcome' = [state |-> "none"]
    /\ UNCHANGED <<uiVars, stats, clipVars, pureVars>>

\* A click on the generate button, which a disabled button does not take.
StartReconstruction == ButtonEnabled /\ startReconstruction

\* The handler called with the button's state left aside, while no run is
\* in flight.
InvokeStartReconstruction == ~isLoading /\ startReconstruction

\* The read the run is suspended in, and the one that follows it (187-190):
\* the optional files are read only when selected.
ReadOrder == <<"readMain", "readSkeleton", "readDense", "readIndex">>
FileRead(r, p) ==
    CASE p = "readMain" -> r.mainFile
      [] p = "readSkeleton" -> r.skeletonFile
      [] p = "readDense" -> r.denseFile
      [] p = "readIndex" -> r.indexFile
WithContent(r, p, text) ==
    CASE p = "readMain" -> [r EXCEPT !.mainContent = text]
      [] p = "readSkeleton" -> [r EXCEPT !.skeletonContent = text]
      [] p = "readDense" -> [r EXCEPT !.denseContent = text]
      [] p = "readIndex" -> [r EXCEPT !.indexContent = text,
                                      !.indexRead = text]
Position(p) == CHOOSE n \in 1..Len(ReadOrder) : ReadOrder[n] = p
LaterReads(r, p) ==
    {n \in (Position(p) + 1)..Len(ReadOrder) : FileRead(r, ReadOrder[n]) # Null}
NextReadSkipsOptional(r, p) == "filter"
NextRead(r, p) ==
    IF LaterReads(r, p) = {} THEN "filter"
    ELSE ReadOrder[CHOOSE n \in LaterReads(r, p) :
                      \A m \in LaterReads(r, p) : n <= m]

\* The index content after a failed filter: the catch of 199-201 assigns
\* nothing, indexContent keeps what was read.
FilterFallbackEmpty(indexContent) == EmptyText
FilterFallback(indexContent) == indexContent

\* The pre-filter step (192-202) on the run r: the index content forwarded
\* and the entries logged.
FilterStep(r) ==
    IF r.indexFile # Null /\ r.processOnlyAccepted /\ TextTruthy(r.indexContent)
    THEN LET parsedIndex == JSONparse(r.indexContent)
             res == IF parsedIndex.ok THEN filterAcceptedRules(parsedIndex.val)
                    ELSE [threw |-> TRUE]
         IN  IF res.threw
             THEN [indexContent |-> FilterFallback(r.indexContent),
                   log |-> <<Entry("info", "filterStart"),
                             Entry("warning", "filterFailed")>>]
             ELSE [indexContent |-> JSONstringify(res.filteredData),
                   log |-> <<Entry("info", "filterStart"),
                             [type |-> "success", k |-> "filterDone",
                              filteredCount |-> res.filteredCount,
                              originalCount |-> res.originalCount]>>]
    ELSE [indexContent |-> r.indexContent, log |-> <<>>]

\* The character budgets of the fragments (219, 225, 231, 238).
MainBudget == 15000
SkeletonBudget == 5000
DenseBudget == 5000
IndexBudget == 8000
Budget(kind) ==
    CASE kind = "main" -> MainBudget
      [] kind = "skeleton" -> SkeletonBudget
      [] kind = "dense" -> DenseBudget
      [] kind = "index" -> IndexBudget

\* String(content).substring(0, budget) of a content of the given length:
\* its first characters, as many as it has up to the budget.
Substring(length, budget) == IF length < budget THEN length ELSE budget

\* What the template writes for a fragment: the cut content followed by
\* '...', for an optional file that is not selected the placeholder
\* 'Nicht vorhanden.' (skeleton, dense) or no section at all (index).
EmbeddedFragment(kind, selected, length) ==
    IF kind = "main" \/ selected
    THEN [embedded |-> TRUE, chars |-> Substring(length, Budget(kind)),
          dots |-> TRUE]
    ELSE [embedded |-> FALSE,
          placeholder |-> IF kind = "index" THEN "" ELSE "Nicht vorhanden."]

\* The prompt (208-272): the contents its fragments are cut from and the
\* pre-filtered notice.
PromptOf(r, indexContent) ==
    [main |-> r.mainContent,
     skeleton |-> IF r.skeletonFile # Null THEN r.skeletonContent ELSE Absent,
     dense |-> IF r.denseFile # Null THEN r.denseContent ELSE Absent,
     index |-> IF r.indexFile # Null THEN indexContent ELSE Absent,
     preFilteredNotice |-> r.indexFile # Null /\ r.processOnlyAccepted]

\* A read completes (reader.onload).  After the last read the run filters,
\* builds the prompt and enters callWithRetry, which invokes the wrapped
\* call for the first time (192-290, 158-160).
ReadResolve ==
    /\ pc \in {"readMain", "readSkeleton", "readDense", "readIndex"}
    /\ \E text \in Contents(pc) :
       LET r == [WithContent(run, pc, text) EXCEPT !.reads = Append(@, pc)]
           next == NextRead(run, pc)
           f == FilterStep(r)
       IN  IF next # "filter"
           THEN /\ run' = r
                /\ pc' = next
                /\ UNCHANGED <<progress, reconstructionLog, i, apiCalls, outcome>>
           ELSE /\ run' = [r EXCEPT !.indexContent = f.indexContent,
                                    !.prompt = PromptOf(r, f.indexContent)]
                /\ reconstructionLog' =
                       reconstructionLog \o f.log
                       \o <<Entry("info", "analysing"), Entry("info", "generating")>>
                /\ progress' = 50
                /\ pc' = "call"
                /\ i' = 0
                /\ apiCalls' = 1
                /\ outcome' = [state |-> "pending"]
    /\ UNCHANGED <<uiVars, isLoading, statusMessage, reconstructedData, stats,
                   lastError, attempts, delays, clipVars, pureVars>>

\* A read fails (reader.onerror rejects with the event): the run aborts.
ReadReject ==
    /\ pc \in {"readMain", "readSkeleton", "readDense", "readIndex"}
    /\ Abort(ProgressEvent, reconstructionLog)
    /\ UNCHANGED <<uiVars, reconstructedData, progress, stats, i, lastError,
                   apiCalls, attempts, delays, outcome, clipVars, pureVars>>

\* The statistics stored when the response does not parse (321).
ParseFailureStatsStale == stats
ParseFailureStats == ZeroStats

\* The wrapped call succeeds: callWithRetry returns the response, and the
\* run validates it (292-324) and ends (332).
CallResolve ==
    /\ pc = "call"
    /\ \E text \in ResponseTexts :
         LET parsed == JSONparse(text)
             log == Append(reconstructionLog, Entry("info", "processing"))
         IN  /\ attempts' = Append(attempts, [ok |-> TRUE, value |-> text])
             /\ outcome' = [state |-> "returned", value |-> text]
             /\ IF parsed.ok
                THEN /\ reconstructedData' = JSONstringify(parsed.val)
                     /\ stats' = StatsOf(parsed.val)
                     /\ reconstructionLog' =
                            Append(log, [type |-> "success", k |-> "done",
                                         totalRules |-> countTotalRules(parsed.val),
                                         versionsProcessed |-> countVersions(parsed.val)])
                     /\ progress' = 100
                     /\ statusMessage' = [k |-> "done"]
                ELSE /\ reconstructedData' = text
                     /\ stats' = ParseFailureStats
                     /\ reconstructionLog' = Append(log, Entry("error", "parse"))
                     /\ progress' = 80
                     /\ statusMessage' = [k |-> "badJson"]
    /\ activeTab' = "results"
    /\ isLoading' = BusyAfterRun
    /\ pc' = "idle"
    /\ run' = NoRun
    /\ UNCHANGED <<mainFile, skeletonFile, denseFile, indexFile,
                   processOnlyAccepted, i, lastError, apiCalls, delays,
                   clipVars, pureVars>>

\* The wrapped call fails (161-178): a retryable error with attempts left is
\* logged and a timer set; any other error is thrown to the run, which
\* aborts.
CallReject ==
    /\ pc = "call"
    /\ \E message \in ErrorMessages, jitter \in Jitters :
         LET error == Err(message, apiCalls)
             waitTime == BackoffBase(i) + jitter
         IN  /\ attempts' = Append(attempts, [ok |-> FALSE, error |-> error])
             /\ lastError' = error
             /\ IF ShouldRetry(isRetryable(ErrorText(error)), i)
                THEN /\ reconstructionLog' =
                            Append(reconstructionLog, RetryLogEntry(i, waitTime))
                     /\ statusMessage' = [k |-> "retrying", attempt |-> i + 2]
                     /\ delays' =
                            Append(delays,
                                   [before |-> i + 1, wait |-> waitTime,
                                    logged |-> LoggedAtTimer(reconstructionLog,
                                                 RetryLogEntry(i, waitTime))])
                     /\ pc' = "backoff"
                     /\ UNCHANGED <<isLoading, outcome, run>>
                ELSE /\ outcome' = [state |-> "raised",
                                    error |-> Thrown(error, lastError)]
                     /\ Abort(Thrown(error, lastError), reconstructionLog)
                     /\ UNCHANGED delays
    /\ UNCHANGED <<uiVars, reconstructedData, progress, stats, i, apiCalls,
                   clipVars, pureVars>>

\* The timer fires: i++, and the loop either invokes the wrapped call again
\* or, past its bound, throws lastError (158, 180).
BackoffElapsed ==
    /\ pc = "backoff"
    /\ i' = i + 1
    /\ IF LoopContinues(i + 1)
       THEN /\ apiCalls' = apiCalls + 1
            /\ pc' = "call"
            /\ UNCHANGED <<isLoading, statusMessage, reconstructionLog, outcome,
                           run>>
       ELSE /\ outcome' = [state |-> "raised", error |-> lastError]
            /\ Abort(lastError, reconstructionLog)
            /\ UNCHANGED apiCalls
    /\ UNCHANGED <<uiVars, reconstructedData, progress, stats, lastError,
                   attempts, delays, clipVars, pureVars>>

(***************************************************************************)
(* The output section (src/index.tsx 394-418, 482-526): the tabs, the copy  *)
(* and the download button.                                                *)
(***************************************************************************)
\* The section is rendered while isLoading || reconstructedData (482).
OutputRendered == isLoading \/ TextTruthy(reconstructedData)

\* A click on a tab (484-485).
SelectTab ==
    /\ OutputRendered
    /\ \E tab \in {"analysis", "results"} : activeTab' = tab
    /\ UNCHANGED <<mainFile, skeletonFile, denseFile, indexFile,
                   processOnlyAccepted, outVars, runVars, clipVars, pureVars>>

\* The copies whose promise or timer may be outstanding at once.
MaxCopies == 1

\* A click on the copy button (521), rendered in the results tab:
\* copyToClipboard(reconstructedData) returns at once on an empty text and
\* else starts navigator.clipboard.writeText (412-414).
copyToClipboard ==
    /\ OutputRendered /\ activeTab = "results"
    /\ clipboardWrites + statusResets < MaxCopies
    /\ clipboardWrites' =
           IF TextTruthy(reconstructedData) THEN clipboardWrites + 1
           ELSE clipboardWrites
    /\ UNCHANGED <<uiVars, outVars, runVars, statusResets, pureVars>>

\* writeText is fulfilled: the status is set and its reset scheduled
\* (415-416).
ClipboardWritten ==
    /\ clipboardWrites > 0
    /\ clipboardWrites' = clipboardWrites - 1
    /\ statusMessage' = [k |-> "copied"]
    /\ statusResets' = statusResets + 1
    /\ UNCHANGED <<uiVars, isLoading, reconstructedData, progress,
                   reconstructionLog, stats, runVars, pureVars>>

\* writeText is rejected: the promise has no rejection handler.
ClipboardRefused ==
    /\ clipboardWrites > 0
    /\ clipboardWrites' = clipboardWrites - 1
    /\ UNCHANGED <<uiVars, outVars, runVars, statusResets, pureVars>>

\* The timer of 416 fires: setStatusMessage('').
StatusResetElapsed ==
    /\ statusResets > 0
    /\ statusResets' = statusResets - 1
    /\ statusMessage' = [k |-> "empty"]
    /\ UNCHANGED <<uiVars, isLoading, reconstructedData, progress,
                   reconstructionLog, stats, runVars, clipboardWrites,
                   pureVars>>

\* A click on the download button (523), disabled while !reconstructedData:
\* downloadFile(reconstructedData, ...) (394-410).
downloadFile ==
    /\ OutputRendered /\ activeTab = "results"
    /\ TextTruthy(reconstructedData)
    /\ statusMessage' = IF ~TextTruthy(reconstructedData)
                        THEN [k |-> "noData"]
                        ELSE [k |-> "downloaded"]
    /\ UNCHANGED <<uiVars, isLoading, reconstructedData, progress,
                   reconstructionLog, stats, runVars, clipVars, pureVars>>

Next ==
    \/ SelectMainFile \/ SelectSkeletonFile \/ SelectDenseFile \/ SelectIndexFile
    \/ removeMainFile \/ removeSkeletonFile \/ removeDenseFile \/ removeIndexFile
    \/ ToggleAccepted
    \/ StartReconstruction
    \/ ReadResolve \/ ReadReject
    \/ CallResolve \/ CallReject
    \/ BackoffElapsed

Spec == Init /\ [][Next]_vars

\* A run's suspended steps are taken: a read and a call each settle (the
\* premise under which termination is stated), and a timer set with
\* setTimeout fires.
RunFairness ==
    /\ WF_vars(ReadResolve \/ ReadReject)
    /\ WF_vars(CallResolve \/ CallReject)
    /\ WF_vars(BackoffElapsed)

SpecLive == Spec /\ RunFairness

\* The run on the main file alone, with the output section.
NextOutput ==
    \/ SelectMainFile
    \/ StartReconstruction
    \/ ReadResolve \/ ReadReject
    \/ CallResolve \/ CallReject
    \/ BackoffElapsed
    \/ SelectTab
    \/ copyToClipboard \/ ClipboardWritten \/ ClipboardRefused
    \/ StatusResetElapsed
    \/ downloadFile

SpecOutput == Init /\ [][NextOutput]_vars

\* The handler called directly, with and without a main file.
NextHandler ==
    \/ SelectMainFile \/ removeMainFile
    \/ InvokeStartReconstruction
    \/ ReadResolve \/ ReadReject
    \/ CallResolve \/ CallReject
    \/ BackoffElapsed

SpecHandler == Init /\ [][NextHandler]_vars

(***************************************************************************)
(* filterAcceptedRules and the aggregators as functions of their input:    *)
(* the document is drawn at the start, and the function applied to it.     *)
(***************************************************************************)
InitFilter ==
    /\ AppInit
    /\ filt \in {[FiltIdle EXCEPT !.data = d] : d \in IndexDocs}
    /\ stat = StatIdle
    /\ frag = FragIdle

ApplyFilter ==
    /\ filt.phase = 0
    /\ filt' = [filt EXCEPT !.phase = 1, !.once = filterAcceptedRules(filt.data)]
    /\ UNCHANGED <<uiVars, outVars, runVars, clipVars, stat, frag>>

\* The filter applied to its own output document.
ApplyFilterAgain ==
    /\ filt.phase = 1
    /\ ~filt.once.threw
    /\ filt' = [filt EXCEPT !.phase = 2,
                            !.twice = filterAcceptedRules(filt.once.filteredData)]
    /\ UNCHANGED <<uiVars, outVars, runVars, clipVars, stat, frag>>

NextFilter == ApplyFilter \/ ApplyFilterAgain

SpecFilter == InitFilter /\ [][NextFilter]_vars

InitStats ==
    /\ AppInit
    /\ filt = FiltIdle
    /\ frag = FragIdle
    /\ stat \in {[StatIdle EXCEPT !.data = d] : d \in ParsedResults}

ComputeStats ==
    /\ stat.phase = 0
    /\ stat' = [stat EXCEPT !.phase = 1, !.out = StatsOf(stat.data)]
    /\ UNCHANGED <<uiVars, outVars, runVars, clipVars, filt, frag>>

NextStats == ComputeStats

SpecStats == InitStats /\ [][NextStats]_vars

\* The template applied to one fragment: contents of a length within
\* FragmentSlack of empty and of the fragment's budget.
FragmentSlack == 3
FragmentKinds == {"main", "skeleton", "dense", "index"}
FragmentLengths(kind) ==
    (0..FragmentSlack)
    \cup ((Budget(kind) - FragmentSlack)..(Budget(kind) + FragmentSlack))
InitPrompt ==
    /\ AppInit
    /\ filt = FiltIdle
    /\ stat = StatIdle
    /\ frag \in {[FragIdle EXCEPT !.kind = kind, !.selected = sel,
                                   !.length = n] :
                   kind \in FragmentKinds, sel \in BOOLEAN,
                   n \in 0..(MainBudget + FragmentSlack)}
    /\ frag.kind = "main" => frag.selected
    /\ frag.length \in FragmentLengths(frag.kind)

BuildFragment ==
    /\ frag.phase = 0
    /\ frag' = [frag EXCEPT !.phase = 1,
                            !.out = EmbeddedFragment(frag.kind, frag.selected,
                                                     frag.length)]
    /\ UNCHANGED <<uiVars, outVars, runVars, clipVars, filt, stat>>

NextPrompt == BuildFragment

SpecPrompt == InitPrompt /\ [][NextPrompt]_vars

\* The aggregators applied to a result of one rule.
InitRule ==
    /\ AppInit
    /\ filt = FiltIdle
    /\ frag = FragIdle
    /\ stat \in {[StatIdle EXCEPT !.data = d] : d \in OneRuleResults}

SpecRule == InitRule /\ [][NextStats]_vars

(***************************************************************************)
(* Properties                                                              *)
(***************************************************************************)
\* The retry warnings in a log.
RetryWarnings(log) ==
    Cardinality({n \in 1..Len(log) : log[n].k = "retry" /\ log[n].type = "warning"})

\* The first n attempts all failed with an error the classifier matches.
AllRetryableFailures(n) ==
    \A m \in 1..n : ~attempts[m].ok /\ isRetryable(ErrorText(attempts[m].error))

\* C1: whatever the outcomes of the wrapped call, one invocation of
\* callWithRetry invokes it at most 3 times.
C1_AtMostThreeCalls == apiCalls <= 3 /\ Len(attempts) <= apiCalls

C1_Witness == apiCalls = 3 /\ Len(attempts) = 3 /\ pc = "idle"

\* C2: when the wrapped call fails k times (k in 0..2) with retryable errors
\* and then succeeds, callWithRetry returns that success value, the call was
\* invoked exactly k+1 times and exactly k retry warnings were logged.
C2_SuccessAfterRetries ==
    LET n == Len(attempts)
    IN  (n >= 1 /\ attempts[n].ok /\ AllRetryableFailures(n - 1))
        => /\ n - 1 \in 0..2
           /\ outcome = [state |-> "returned", value |-> attempts[n].value]
           /\ apiCalls = n
           /\ RetryWarnings(reconstructionLog) = n - 1

C2_Witness ==
    /\ Len(attempts) = 3
    /\ attempts[3].ok
    /\ outcome.state = "returned"
    /\ RetryWarnings(reconstructionLog) = 2

\* C3: when an attempt fails with an error the classifier does not match,
\* callWithRetry raises that error at once: no further invocation, no delay
\* and no retry warning for that failure, on the first attempt and after
\* earlier retryable failures alike.
C3_NonRetryableRaisesAtOnce ==
    LET n == Len(attempts)
    IN  (n >= 1 /\ ~attempts[n].ok
         /\ ~isRetryable(ErrorText(attempts[n].error)))
        => /\ outcome = [state |-> "raised", error |-> attempts[n].error]
           /\ apiCalls = n
           /\ pc = "idle"
           /\ Len(delays) = n - 1
           /\ RetryWarnings(reconstructionLog) = n - 1

C3_Witness ==
    /\ Len(attempts) = 2
    /\ ~attempts[2].ok
    /\ ~isRetryable(ErrorText(attempts[2].error))
    /\ isRetryable(ErrorText(attempts[1].error))
    /\ outcome.state = "raised"

\* C4: when all 3 attempts fail with retryable errors, callWithRetry raises
\* the error of the third attempt, not an earlier one; exactly 2 retry
\* warnings were logged and no delay follows the third failure.
C4_ExhaustedRaisesLast ==
    (Len(attempts) = 3 /\ AllRetryableFailures(3))
    => /\ outcome = [state |-> "raised", error |-> attempts[3].error]
       /\ outcome.error # attempts[1].error
       /\ outcome.error # attempts[2].error
       /\ pc = "idle"
       /\ Len(delays) = 2
       /\ RetryWarnings(reconstructionLog) = 2

C4_Witness ==
    /\ Len(attempts) = 3
    /\ AllRetryableFailures(3)
    /\ outcome.state = "raised"
    /\ apiCalls = 3

\* C5 as stated: the delay taken before attempt i (0-indexed) is
\* 1000 * 2^i plus a jitter between 0 and 200 ms.
C5_DelayBeforeAttemptI ==
    \A n \in 1..Len(delays) :
        delays[n].wait - 1000 * Pow2(delays[n].before) \in 0..200

\* C5 amended: delays are taken only before attempts 1 and 2, never before
\* attempt 0, and the delay before attempt i is 1000 * 2^(i-1) plus a jitter
\* between 0 and 200 ms (the exponent is the index of the attempt that
\* failed).
C5_DelayAfterFailedAttempt ==
    \A n \in 1..Len(delays) :
        /\ delays[n].before = n
        /\ delays[n].wait - 1000 * Pow2(delays[n].before - 1) \in 0..200

C5_Witness ==
    /\ Len(delays) = 2
    /\ delays[1].wait = 1000
    /\ delays[2].wait = 2199
    /\ apiCalls = 3

\* The keys of the versions of an index document, and one version's rules.
DocVersions(doc) == Get(doc, "versions")
NoneAccepted(version) ==
    \A n \in 1..Len(Values(Get(version, "rules"))) :
        Get(Values(Get(version, "rules"))[n], "accepted") # Bool(TRUE)

\* C6: every version in the output of filterAcceptedRules holds at least one
\* rule, and a version none of whose rules has accepted === true is not in
\* the output.
C6_NoEmptyVersion ==
    (filt.phase >= 1 /\ ~filt.once.threw)
    => LET out == DocVersions(filt.once.filteredData)
           in == DocVersions(filt.data)
       IN  /\ \A n \in 1..Len(Values(out)) :
                 Len(Keys(Get(Values(out)[n], "rules"))) >= 1
           /\ \A n \in 1..Len(Keys(in)) :
                 NoneAccepted(Values(in)[n])
                 => ~\E m \in 1..Len(Keys(out)) : Keys(out)[m] = Keys(in)[n]

C6_Witness ==
    /\ filt.phase >= 1
    /\ ~filt.once.threw
    /\ Len(Keys(DocVersions(filt.data))) = 2
    /\ Keys(DocVersions(filt.once.filteredData)) = <<"2.0">>
    /\ Len(Keys(Get(Values(DocVersions(filt.data))[1], "rules"))) = 2

\* C7: filtering the filtered document yields an identical document, and
\* then originalCount = filteredCount.
C7_Idempotent ==
    filt.phase = 2
    => /\ ~filt.twice.threw
       /\ filt.twice.filteredData = filt.once.filteredData
       /\ filt.twice.originalCount = filt.twice.filteredCount
       /\ filt.twice.filteredCount = filt.once.filteredCount

C7_Witness ==
    /\ filt.phase = 2
    /\ filt.once.filteredCount = 2
    /\ filt.once.originalCount = 4
    /\ Get(filt.data, "meta") = MetaObj

\* C8: for every parsed result in either shape, with or without the
\* wrapper, reconstructed <= total and the semantic depth is in 0..100.
C8_CountsOrdered ==
    stat.phase = 1
    => /\ stat.out.reconstructedRules <= stat.out.totalRules
       /\ stat.out.semanticDepth \in 0..100
       /\ stat.out.reconstructedRules >= 0

C8_Witness ==
    /\ stat.phase = 1
    /\ stat.data \in WellFormedResults
    /\ stat.out.reconstructedRules = 3
    /\ stat.out.versionsProcessed = 2
    /\ Get(stat.data, "versions") = Undef

\* Each rule of each version counted once, whichever shape holds it.
RECURSIVE RulesCountedOnce(_, _)
RulesCountedOnce(versions, n) ==
    IF n > Len(versions) THEN 0
    ELSE (IF Truthy(versions[n]) /\ TypeofObject(Get(versions[n], "rules"))
          THEN Len(Values(Get(versions[n], "rules"))) ELSE 0)
         + RulesCountedOnce(versions, n + 1)

\* C9: countTotalRules is the sum over the versions of the number of rules
\* of each, every rule counted exactly once in either shape; the legacy
\* result with one version of one complete rule gives totalRules 1,
\* reconstructedRules 1, versionsProcessed 1, semantic depth 100.
C9_EachRuleOnce ==
    (stat.phase = 1 /\ stat.data \in WellFormedResults)
    => /\ stat.out.totalRules =
              RulesCountedOnce(Values(dataToProcess(stat.data)), 1)
       /\ stat.data = LegacyOneRule
          => stat.out = [totalRules |-> 1, reconstructedRules |-> 1,
                         versionsProcessed |-> 1, semanticDepth |-> 100]

\* round(a / b), a half going up, in exact arithmetic.
RoundedRatio(a, b) == (2 * a + b) \div (2 * b)

\* C10: the semantic depth a run stores is 0 when the stored totalRules is
\* 0, and otherwise round(100 * reconstructedRules / totalRules) of the
\* stored counts.
C10_StoredDepth ==
    stats.semanticDepth =
        IF stats.totalRules = 0 THEN 0
        ELSE RoundedRatio(100 * stats.reconstructedRules, stats.totalRules)

\* C11: a rule is counted by countReconstructedRules if and only if the
\* three fields of the legacy triplet are all present and non-empty or the
\* three of the alternate triplet are; three non-empty fields spread over
\* the two triplets, or one field missing of each, do not count.
OnlyRule(data) ==
    Values(Get(Get(Get(data, "versions"), "1.0"), "rules"))[1]
Filled(rule, field) ==
    \E n \in 1..Len(rule.props) :
        rule.props[n].k = field /\ rule.props[n].v.t = "string"
        /\ Len(rule.props[n].v.v) > 0
LegacyTriplet(rule) ==
    Filled(rule, "was") /\ Filled(rule, "warum") /\ Filled(rule, "wie")
AlternateTriplet(rule) ==
    Filled(rule, "wortlaut") /\ Filled(rule, "seele") /\ Filled(rule, "funktion")
C11_CountedIffTriplet ==
    stat.phase = 1 =>
        LET rule == OnlyRule(stat.data)
        IN  stat.out.reconstructedRules =
                IF LegacyTriplet(rule) \/ AlternateTriplet(rule) THEN 1 ELSE 0

\* A rule of three filled fields spread over the two triplets, not counted.
C11_Witness ==
    /\ stat.phase = 1
    /\ LET rule == OnlyRule(stat.data)
       IN  /\ Filled(rule, "was") /\ Filled(rule, "seele")
           /\ Filled(rule, "funktion")
           /\ ~Filled(rule, "warum") /\ ~Filled(rule, "wie")
           /\ ~Filled(rule, "wortlaut")
    /\ stat.out.reconstructedRules = 0
    /\ stat.out.totalRules > 0

\* The entries of a severity in a log.
EntriesOf(log, type) == Cardinality({n \in 1..Len(log) : log[n].type = type})

\* C12: when the remote call succeeds with a text that is not valid JSON,
\* the run ends degraded, not aborted: the displayed result is the raw text,
\* the four statistics are zero, one 'error' entry is appended, the status
\* is the parse-failure message (not the success message), and the busy
\* flag is cleared.
C12_UnparsableDegrades ==
    [][(pc = "call" /\ outcome'.state = "returned"
        /\ ~JSONparse(outcome'.value).ok)
       => /\ reconstructedData' = outcome'.value
          /\ stats' = ZeroStats
          /\ EntriesOf(reconstructionLog', "error")
               = EntriesOf(reconstructionLog, "error") + 1
          /\ reconstructionLog'[Len(reconstructionLog')].type = "error"
          /\ statusMessage' = [k |-> "badJson"]
          /\ statusMessage' # [k |-> "done"]
          /\ ~isLoading' /\ pc' = "idle"
          /\ activeTab' = "results"]_vars

\* A run has ended on the raw text 'not json'.
C12_Witness ==
    /\ pc = "idle" /\ ~isLoading
    /\ outcome.state = "returned" /\ ~JSONparse(outcome.value).ok
    /\ reconstructedData = RawText("not json")
    /\ stats = ZeroStats
    /\ statusMessage = [k |-> "badJson"]
    /\ EntriesOf(reconstructionLog, "error") = 1

\* C13: startReconstruction invoked with no main file starts no run: no log
\* entry is appended, the log, the reconstructed data and the statistics
\* stay as they are, the busy flag stays false, no file is read and no
\* remote call issued; only the status line changes.
C13_NoMainFileNoRun ==
    [][(mainFile = Null /\ pc = "idle")
       => /\ UNCHANGED <<reconstructionLog, reconstructedData, stats, progress,
                         runVars, activeTab>>
          /\ ~isLoading /\ ~isLoading'
          /\ statusMessage' \in {statusMessage, [k |-> "needMain"]}]_vars

\* The handler has answered a call without a main file, the log, data and
\* statistics of an earlier run still in place.
C13_Witness ==
    /\ mainFile = Null /\ pc = "idle" /\ ~isLoading
    /\ statusMessage = [k |-> "needMain"]
    /\ reconstructionLog # <<>>
    /\ TextTruthy(reconstructedData)
    /\ stats # ZeroStats
    /\ apiCalls = 1

\* The positions in which the run waits for a file read.
ReadStates == {"readMain", "readSkeleton", "readDense", "readIndex"}
HasEntry(log, k) == \E n \in 1..Len(log) : log[n].k = k

\* C14: a run aborts exactly when a file read fails or callWithRetry
\* raises: then one 'error' entry is appended, the status shows the error,
\* the response is not validated and the reconstructed data stays empty.  A
\* run that ends otherwise has validated a response, and a rule-index parse
\* failure leaves the run going to the remote call.
C14_AbortOnlyOnReadOrCall ==
    [][/\ (pc # "idle" /\ pc' = "idle") =>
           IF pc \in ReadStates \/ outcome'.state = "raised"
           THEN /\ EntriesOf(reconstructionLog', "error")
                     = EntriesOf(reconstructionLog, "error") + 1
                /\ reconstructionLog'[Len(reconstructionLog')].type = "error"
                /\ statusMessage'.k = "error"
                /\ reconstructedData' = EmptyText
                /\ UNCHANGED <<stats, activeTab, progress>>
                /\ ~isLoading'
           ELSE /\ pc = "call" /\ outcome'.state = "returned"
                /\ statusMessage'.k \in {"done", "badJson"}
                /\ reconstructedData' # EmptyText
                /\ activeTab' = "results"
       /\ (pc \in ReadStates /\ HasEntry(reconstructionLog', "filterFailed"))
            => pc' = "call" /\ isLoading' /\ apiCalls' = 1]_vars

\* A run whose rule index failed to parse went on to the remote call and
\* aborted there, on the final error.
C14_Witness ==
    /\ pc = "idle" /\ ~isLoading
    /\ outcome.state = "raised"
    /\ HasEntry(reconstructionLog, "filterFailed")
    /\ EntriesOf(reconstructionLog, "error") = 1
    /\ statusMessage.k = "error"
    /\ reconstructedData = EmptyText
    /\ stats # ZeroStats

\* The run has passed the pre-filter step and holds the content forwarded.
PastFilter == pc \in {"call", "backoff"}
FilterRequested == run.indexFile # Null /\ run.processOnlyAccepted
ForwardedUnchanged ==
    /\ run.indexContent = run.indexRead
    /\ run.prompt.index = IF run.indexFile # Null THEN run.indexRead ELSE Absent
FilterWarnings(log) ==
    Cardinality({n \in 1..Len(log) :
                   log[n].type = "warning" /\ log[n].k = "filterFailed"})

\* C15 as stated: with accepted-only filtering requested and an index
\* content that does not parse as JSON, one 'warning' entry is appended, the
\* content is forwarded as read and the run goes on to the remote call;
\* without the request the content is forwarded as read.
C15_ParseFailureWarns ==
    PastFilter =>
        /\ (FilterRequested /\ ~JSONparse(run.indexRead).ok)
              => FilterWarnings(reconstructionLog) = 1 /\ ForwardedUnchanged
        /\ ~FilterRequested
              => FilterWarnings(reconstructionLog) = 0 /\ ForwardedUnchanged
        /\ apiCalls >= 1

\* C15 amended: the warning is logged for a non-empty content that does not
\* parse; an empty content is forwarded without a parse and without a
\* warning.
C15_NonEmptyParseFailureWarns ==
    PastFilter =>
        /\ (FilterRequested /\ ~JSONparse(run.indexRead).ok)
              => /\ FilterWarnings(reconstructionLog)
                      = IF TextTruthy(run.indexRead) THEN 1 ELSE 0
                 /\ ForwardedUnchanged
        /\ ~FilterRequested
              => FilterWarnings(reconstructionLog) = 0 /\ ForwardedUnchanged
        /\ apiCalls >= 1

\* The run is at the remote call after its index, read as 'not json',
\* failed to parse under the accepted-only request.
C15_Witness ==
    /\ pc = "call" /\ isLoading
    /\ FilterRequested
    /\ run.indexRead = RawText("not json")
    /\ run.prompt.index = RawText("not json")
    /\ FilterWarnings(reconstructionLog) = 1

\* A step starts a run: the run is at its first read, with a new closure
\* or from another position.
RunStarts == pc' = "readMain" /\ (pc # "readMain" \/ run' # run)

\* C16: at most one run is in flight: the busy flag is set exactly while a
\* run is suspended in a read, the remote call or a backoff delay, and a
\* run starts only from the state in which none is in flight, so that no
\* second run writes the log, the result and the statistics.
C16_SingleRun ==
    /\ [](isLoading <=> pc # "idle")
    /\ [][RunStarts => pc = "idle" /\ ~isLoading /\ isLoading']_vars
    /\ [][(pc # "idle" /\ pc' # "idle") => run'.mainFile = run.mainFile]_vars

\* A run is waiting in its second backoff delay with a main file selected:
\* a click on the button is not taken.
C16_Witness ==
    /\ pc = "backoff" /\ Len(delays) = 2
    /\ isLoading /\ mainFile # Null /\ ~ButtonEnabled
    /\ indexFile # run.indexFile

\* The ends of a run: success, abort with an error, or degradation on a
\* response that does not parse.
RunEnded ==
    /\ pc = "idle" /\ ~isLoading
    /\ \/ statusMessage.k = "done" /\ outcome.state = "returned"
          /\ JSONparse(outcome.value).ok
       \/ statusMessage.k = "error" /\ outcome.state \in {"none", "raised"}
       \/ statusMessage.k = "badJson" /\ outcome.state = "returned"
          /\ ~JSONparse(outcome.value).ok

\* C17: every run that starts ends, when each file read and each attempt of
\* the remote call settles: in success, in an abort with an error or in the
\* degraded end, each with the busy flag cleared.
C17_RunEnds == isLoading ~> RunEnded

\* A run has ended in an abort after two backoff delays (the longest run).
C17_Witness ==
    /\ RunEnded /\ statusMessage.k = "error"
    /\ apiCalls = 3 /\ Len(delays) = 2

\* The statistics of the reconstructed data held: the aggregator values of
\* the parsed data, zero when the text held is empty or does not parse.
HeldStats ==
    IF JSONparse(reconstructedData).ok
    THEN StatsOf(JSONparse(reconstructedData).val)
    ELSE ZeroStats

\* C18: whenever no run is in flight, the statistics are the aggregator
\* values of the reconstructed data held, all zero when no parsed data is
\* held; after a run that aborts or degrades they are not those of an
\* earlier run whose data has been discarded.
C18_StatsOfHeldData == pc = "idle" => stats = HeldStats

\* The status messages a run in flight sets (151, 172).
InProgressStatus == {"starting", "retrying"}

\* C19: the status line reflects the run: while a run is in flight it is
\* the run's in-progress message, neither blanked nor replaced by the copy
\* confirmation and its delayed reset.
C19_StatusReflectsRun == isLoading => statusMessage.k \in InProgressStatus

\* The reads of the files the run started with, in order.
SelectedReads(r) == SelectSeq(ReadOrder, LAMBDA p : FileRead(r, p) # Null)
IsPrefix(a, b) == Len(a) <= Len(b) /\ SubSeq(b, 1, Len(a)) = a

\* C20: the remote call is issued only after the main file and every
\* selected optional file have been read, one read after the other; a run
\* in which a read fails never issues the remote call.
C20_CallAfterAllReads ==
    /\ pc \in {"call", "backoff"}
         => run.reads = SelectedReads(run) /\ apiCalls >= 1
    /\ pc \in ReadStates
         => /\ apiCalls = 0 /\ attempts = <<>>
            /\ IsPrefix(Append(run.reads, pc), SelectedReads(run))
    /\ (pc = "idle" /\ outcome.state = "none")
         => apiCalls = 0 /\ attempts = <<>>

\* The first remote call is pending after all four files were read.
C20_Witness ==
    /\ pc = "call" /\ apiCalls = 1 /\ attempts = <<>>
    /\ run.reads = ReadOrder

\* C21: for every retry the 'warning' entry of the failed attempt is in the
\* log when the backoff delay begins, and the wrapped call is invoked again
\* only when that delay has elapsed; a failure that is not followed by a
\* retry appends no warning.
C21_WarningThenDelayThenCall ==
    /\ [](\A n \in 1..Len(delays) :
             /\ delays[n].logged \in 1..Len(reconstructionLog)
             /\ reconstructionLog[delays[n].logged]
                  = [type |-> "warning", k |-> "retry", attempt |-> n,
                     seconds |-> waitSeconds(delays[n].wait)])
    /\ [](EntriesOf(reconstructionLog, "warning")
            - FilterWarnings(reconstructionLog) = Len(delays))
    /\ [](pc = "call" => apiCalls = Len(delays) + 1)
    /\ [](pc = "backoff" => apiCalls = Len(delays))
    /\ [][(apiCalls' > apiCalls /\ apiCalls > 0)
            => pc = "backoff" /\ pc' = "call" /\ apiCalls' = apiCalls + 1]_vars
    /\ [][(pc = "call" /\ pc' = "idle")
            => EntriesOf(reconstructionLog', "warning")
                 = EntriesOf(reconstructionLog, "warning")]_vars

\* A run has ended on the failure of its second attempt, which was not
\* retried: one warning, for the first attempt, and one delay.
C21_Witness ==
    /\ pc = "idle" /\ outcome.state = "raised"
    /\ Len(attempts) = 2 /\ Len(delays) = 1
    /\ ~isRetryable(ErrorText(attempts[2].error))
    /\ EntriesOf(reconstructionLog, "warning")
         - FilterWarnings(reconstructionLog) = 1
    /\ delays[1].logged < Len(reconstructionLog)

\* C22: during a run the log only grows at its end, no entry removed or
\* reordered; the step that starts a run, before any file is read, leaves
\* nothing of the previous run's log and reconstructed data.
C22_AppendOnlyThenCleared ==
    [][IF pc = "idle" /\ pc' # "idle"
       THEN /\ reconstructionLog' = <<[type |-> "info", k |-> "loading"]>>
            /\ reconstructedData' = EmptyText
            /\ pc' = "readMain" /\ run'.reads = <<>>
       ELSE IsPrefix(reconstructionLog, reconstructionLog')]_vars

\* A second run is at its first read: the log holds its first entry alone
\* and the data is empty, the statistics of the first run still stored.
C22_Witness ==
    /\ pc = "readMain" /\ run.reads = <<>>
    /\ stats # ZeroStats
    /\ reconstructionLog = <<[type |-> "info", k |-> "loading"]>>
    /\ reconstructedData = EmptyText

\* C23: after every sequence of file selections, removals and toggle
\* changes the accepted-only toggle is set only while an index file is
\* held: removing the index file resets it, and it is not switched on
\* while no index file is selected.
C23_ToggleOnlyWithIndex ==
    /\ [](processOnlyAccepted => indexFile # Null)
    /\ [][(indexFile # Null /\ indexFile' = Null) => ~processOnlyAccepted']_vars
    /\ [][(~processOnlyAccepted /\ processOnlyAccepted')
            => indexFile # Null /\ indexFile' # Null]_vars

\* The index file was removed during a run that had started with the
\* toggle on: the toggle is off again.
C23_Witness ==
    /\ pc # "idle" /\ run.indexFile # Null /\ run.processOnlyAccepted
    /\ indexFile = Null /\ ~processOnlyAccepted

\* C24: the prompt embeds the first min(length, budget) characters of each
\* fragment and marks the fragment as truncated exactly when it was
\* clipped: a fragment not longer than its budget carries no marker.
C24_MarkedIffClipped ==
    (frag.phase = 1 /\ frag.out.embedded) =>
        /\ frag.out.chars = IF frag.length <= Budget(frag.kind)
                            THEN frag.length ELSE Budget(frag.kind)
        /\ frag.out.dots <=> frag.length > Budget(frag.kind)

\* The index content the prompt is built from is the output of
\* filterAcceptedRules on the content read.
IndexIsFilterOutput ==
    /\ JSONparse(run.indexRead).ok
    /\ LET res == filterAcceptedRules(JSONparse(run.indexRead).val)
       IN  /\ ~res.threw
           /\ run.prompt.index = JSONstringify(res.filteredData)

\* C25: the prompt carries the pre-filtered notice only when the index
\* content in it is the output of filterAcceptedRules; when filtering was
\* requested but skipped, the index unparsable or empty, it carries none.
C25_NoticeOnlyWhenFiltered ==
    (PastFilter /\ run.prompt.preFilteredNotice) => IndexIsFilterOutput

====
